---- MODULE Spec2Model ----
(***************************************************************************)
(* Model of the proposal submission form (app.py): input validation, file  *)
(* encoding, payload assembly, datastore logging, webhook dispatch and     *)
(* status update, one script run per button click and per browser session. *)
(*                                                                         *)
(* Python strings and byte strings are modelled as sequences of one-        *)
(* character strings and of integers 0..255, so that strip, rsplit, lower,  *)
(* slicing, base64 and the parsing of a JSON body are computed rather than  *)
(* assumed.                                                                 *)
(***************************************************************************)
EXTENDS Integers, Sequences, FiniteSets, TLC

\* ------------------------------------------------------------------------
\* Bounds of the model
\* ------------------------------------------------------------------------
MaxClicks == 1      \* button clicks of one session, explored with every input
MaxSeries == 2      \* button clicks of two sessions whose runs go on side by side
MaxTime   == 1      \* the wall clock (in whole seconds) runs over 0..MaxTime
MaxBeneath == 8     \* Python frames beneath the script, explored from none up

Sessions == {"s1", "s2"}

\* ------------------------------------------------------------------------
\* Characters
\* ------------------------------------------------------------------------
\* The characters U+0000..U+00FF in code point order: a one-character string
\* stands for the Python character with that code point.  U+0000 and U+0060
\* (the backtick) cannot be written in a string of this notation and go by
\* the names "U+0000" and "U+0060".  The characters above U+00FF have no
\* string here and are left out of the model.
Latin1 ==
    << "U+0000","","","","","","","","","\t","\n","","\f","\r","","",
       "","","","","","","","","","","","","","","","",
       " ","!","\"","#","$","%","&","'","(",")","*","+",",","-",".","/",
       "0","1","2","3","4","5","6","7","8","9",":",";","<","=",">","?",
       "@","A","B","C","D","E","F","G","H","I","J","K","L","M","N","O",
       "P","Q","R","S","T","U","V","W","X","Y","Z","[","\\","]","^","_",
       "U+0060","a","b","c","d","e","f","g","h","i","j","k","l","m","n","o",
       "p","q","r","s","t","u","v","w","x","y","z","{","|","}","~","",
       "","","","","","","","","","","","","","","","",
       "","","","","","","","","","","","","","","","",
       " ","¡","¢","£","¤","¥","¦","§","¨","©","ª","«","¬","­","®","¯",
       "°","±","²","³","´","µ","¶","·","¸","¹","º","»","¼","½","¾","¿",
       "À","Á","Â","Ã","Ä","Å","Æ","Ç","È","É","Ê","Ë","Ì","Í","Î","Ï",
       "Ð","Ñ","Ò","Ó","Ô","Õ","Ö","×","Ø","Ù","Ú","Û","Ü","Ý","Þ","ß",
       "à","á","â","ã","ä","å","æ","ç","è","é","ê","ë","ì","í","î","ï",
       "ð","ñ","ò","ó","ô","õ","ö","÷","ø","ù","ú","û","ü","ý","þ","ÿ" >>

chr(n) == Latin1[n + 1]

ord(c) == (CHOOSE i \in 1..Len(Latin1) : Latin1[i] = c) - 1

\* ------------------------------------------------------------------------
\* String helpers (Python str methods used by the code)
\* ------------------------------------------------------------------------
Min(a, b) == IF a < b THEN a ELSE b

Reverse(s) == [i \in 1..Len(s) |-> s[Len(s) + 1 - i]]

\* The characters removed by str.strip() with no argument, those str.isspace()
\* is true of: U+0009..U+000D, U+001C..U+001F, U+0020, U+0085, U+00A0.
Whitespace == { chr(n) : n \in (9..13) \cup (28..32) \cup {133, 160} }

RECURSIVE lstrip(_)
lstrip(s) == IF s # <<>> /\ Head(s) \in Whitespace THEN lstrip(Tail(s)) ELSE s

strip(s) == Reverse(lstrip(Reverse(lstrip(s))))

\* str.lower() of one character: A..Z and the capital letters U+00C0..U+00DE
\* (U+00D7, the multiplication sign, is no letter) move up by 32.
lower_char(c) ==
    LET n == ord(c)
    IN  IF n \in (65..90) \cup (192..214) \cup (216..222) THEN chr(n + 32) ELSE c

\* str.lower()
lower(s) == [i \in 1..Len(s) |-> lower_char(s[i])]

\* s.rsplit(".", 1)[-1]: what follows the last dot, the whole of s if it has
\* no dot.
rsplit_last(s) ==
    LET dots == {i \in 1..Len(s) : s[i] = "."}
        last == IF dots = {} THEN 0 ELSE CHOOSE i \in dots : \A j \in dots : j <= i
    IN  SubSeq(s, last + 1, Len(s))

\* str.endswith
endswith(s, suffix) ==
    /\ Len(suffix) <= Len(s)
    /\ SubSeq(s, Len(s) - Len(suffix) + 1, Len(s)) = suffix

Digit == <<"0","1","2","3","4","5","6","7","8","9">>

RECURSIVE str_int(_)
\* str(n) for n >= 0
str_int(n) == IF n < 10 THEN <<Digit[n + 1]>>
              ELSE str_int(n \div 10) \o <<Digit[(n % 10) + 1]>>

\* ------------------------------------------------------------------------
\* validate_inputs
\* ------------------------------------------------------------------------
\* An uploaded file as the code reads it: .name, .size, .type and what
\* .getvalue() does (returns the bytes in `content`, or raises).
None == [present |-> FALSE]

UploadedFile(name, type, size, content, raises) ==
    [present |-> TRUE, name |-> name, type |-> type, size |-> size,
     content |-> content, raises |-> raises]

\* A user-facing message: an f-string's literal text and its formatted values.
Msg(fmt, args) == [fmt |-> fmt, args |-> args]

allowed == << <<".","p","d","f">>, <<".","d","o","c","x">>, <<".","d","o","c">> >>

MB == 1024 * 1024
MaxSizeMB == 10

\* size / (1024 * 1024): division by a power of two is exact in binary
\* floating point, so the quotient is kept as whole part and remainder.
size_mb(size) == [whole |-> size \div MB, rem |-> size % MB]

\* Variant: the ceiling itself is refused (>= for >)
size_mb_ge(sz, n) == sz.whole >= n

\* size_mb > 10
size_mb_gt(sz, n) == sz.whole > n \/ (sz.whole = n /\ sz.rem > 0)

\* f"{size_mb:.1f}": one decimal, ties to even
format_1f(size) ==
    LET t  == size * 10
        q  == t \div MB
        r  == t % MB
        up == 2 * r > MB \/ (2 * r = MB /\ q % 2 = 1)
        n  == IF up THEN q + 1 ELSE q
    IN  str_int(n \div 10) \o <<".">> \o str_int(n % 10)

\* Variant: the size rule is checked before the extension rule
validate_inputs_size_first(client_name, service_types, rfp_file) ==
    IF client_name = <<>> \/ strip(client_name) = <<>>
    THEN <<FALSE, Msg("Please enter a client name.", <<>>)>>
    ELSE IF service_types = <<>>
    THEN <<FALSE, Msg("Please select at least one service type.", <<>>)>>
    ELSE IF rfp_file = None
    THEN <<FALSE, Msg("Please upload an RFP document.", <<>>)>>
    ELSE LET ext == <<".">> \o lower(rsplit_last(rfp_file.name)) IN
         IF size_mb_gt(size_mb(rfp_file.size), MaxSizeMB)
         THEN <<FALSE, Msg("RFP file is {size_mb:.1f}MB - maximum allowed is 10MB.",
                           <<format_1f(rfp_file.size)>>)>>
         ELSE IF \A i \in 1..Len(allowed) : allowed[i] # ext
         THEN <<FALSE, Msg("Invalid file type '{ext}'. Allowed: .pdf, .docx, .doc",
                           <<ext>>)>>
         ELSE <<TRUE, Msg("", <<>>)>>

validate_inputs(client_name, service_types, rfp_file) ==
    IF client_name = <<>> \/ strip(client_name) = <<>>
    THEN <<FALSE, Msg("Please enter a client name.", <<>>)>>
    ELSE IF service_types = <<>>
    THEN <<FALSE, Msg("Please select at least one service type.", <<>>)>>
    ELSE IF rfp_file = None
    THEN <<FALSE, Msg("Please upload an RFP document.", <<>>)>>
    ELSE LET ext == <<".">> \o lower(rsplit_last(rfp_file.name)) IN
         IF \A i \in 1..Len(allowed) : allowed[i] # ext
         THEN <<FALSE, Msg("Invalid file type '{ext}'. Allowed: .pdf, .docx, .doc",
                           <<ext>>)>>
         ELSE IF size_mb_gt(size_mb(rfp_file.size), MaxSizeMB)
         THEN <<FALSE, Msg("RFP file is {size_mb:.1f}MB - maximum allowed is 10MB.",
                           <<format_1f(rfp_file.size)>>)>>
         ELSE <<TRUE, Msg("", <<>>)>>
\* (the dash of the size message is an em dash in the source)

\* ------------------------------------------------------------------------
\* encode_file_to_base64
\* ------------------------------------------------------------------------
B64Alphabet == <<"A","B","C","D","E","F","G","H","I","J","K","L","M",
                 "N","O","P","Q","R","S","T","U","V","W","X","Y","Z",
                 "a","b","c","d","e","f","g","h","i","j","k","l","m",
                 "n","o","p","q","r","s","t","u","v","w","x","y","z",
                 "0","1","2","3","4","5","6","7","8","9","+","/">>

RECURSIVE b64encode(_)
\* base64.b64encode(bytes).decode("utf-8")
b64encode(b) ==
    IF Len(b) = 0 THEN <<>>
    ELSE IF Len(b) = 1 THEN
        << B64Alphabet[(b[1] \div 4) + 1],
           B64Alphabet[((b[1] % 4) * 16) + 1], "=", "=" >>
    ELSE IF Len(b) = 2 THEN
        << B64Alphabet[(b[1] \div 4) + 1],
           B64Alphabet[((b[1] % 4) * 16 + (b[2] \div 16)) + 1],
           B64Alphabet[((b[2] % 16) * 4) + 1], "=" >>
    ELSE
        << B64Alphabet[(b[1] \div 4) + 1],
           B64Alphabet[((b[1] % 4) * 16 + (b[2] \div 16)) + 1],
           B64Alphabet[((b[2] % 16) * 4 + (b[3] \div 64)) + 1],
           B64Alphabet[(b[3] % 64) + 1] >>
        \o b64encode(SubSeq(b, 4, Len(b)))

\* The result of encode_file_to_base64: [none |-> TRUE] for Python's None
\* (getvalue or the encoding raised), the base64 text otherwise.
EncNone == [none |-> TRUE, text |-> <<>>]

encode_file_to_base64(uploaded_file) ==
    IF uploaded_file.raises THEN EncNone
    ELSE [none |-> FALSE, text |-> b64encode(uploaded_file.content)]

\* ------------------------------------------------------------------------
\* response.json(): json.loads on the body text
\* ------------------------------------------------------------------------
\* A parsed JSON value: its Python type and what it holds.  A str holds its
\* code points, a list its values, a dict its (key, value) pairs in insertion
\* order, a number the characters of its literal; true, false and null hold
\* nothing.  "error" stands for the exception json.loads raises.
JsonValue(type, items) == [type |-> type, items |-> items]
EmptyDict == JsonValue("dict", <<>>)
JsonError == JsonValue("error", <<>>)

\* what a scanning step gives: a value and the index after it, or no match
NoMatch == [ok |-> FALSE, value |-> <<>>, end |-> 0]
Match(value, end) == [ok |-> TRUE, value |-> value, end |-> end]

JsonWhitespace == {" ", "\t", "\n", "\r"}

\* the index after the run of characters of a class that starts at idx
run_end(s, idx, class) ==
    IF idx > Len(s) THEN idx
    ELSE CHOOSE i \in idx..(Len(s) + 1) :
            /\ i > Len(s) \/ s[i] \notin class
            /\ \A j \in idx..(i - 1) : s[j] \in class

\* WHITESPACE.match(s, idx).end()
skip_whitespace(s, idx) == run_end(s, idx, JsonWhitespace)

\* s[idx:idx + len(word)] == word
startswith_at(s, idx, word) ==
    /\ idx + Len(word) - 1 <= Len(s)
    /\ SubSeq(s, idx, idx + Len(word) - 1) = word

DecimalDigits == { Digit[i] : i \in 1..10 }
HexLetters == <<"a", "b", "c", "d", "e", "f">>
HexCapitals == <<"A", "B", "C", "D", "E", "F">>

is_digit(c) == c \in DecimalDigits

\* int(c) of a decimal digit
digit_value(c) == (CHOOSE i \in 1..10 : Digit[i] = c) - 1

\* int(c, 16), -1 if c is not a hexadecimal digit
hex_value(c) ==
    IF is_digit(c) THEN digit_value(c)
    ELSE IF \E i \in 1..6 : c \in {HexLetters[i], HexCapitals[i]}
    THEN 9 + CHOOSE i \in 1..6 : c \in {HexLetters[i], HexCapitals[i]}
    ELSE -1

\* the number four hexadecimal digits stand for, -1 if one of them is none
hex4(a, b, c, d) ==
    IF a < 0 \/ b < 0 \/ c < 0 \/ d < 0 THEN -1
    ELSE 4096 * a + 256 * b + 16 * c + d

\* the code unit of a \uXXXX escape whose digits start at pos, -1 if they
\* are not four hexadecimal digits
decode_uXXXX(s, pos) ==
    IF pos + 3 <= Len(s)
    THEN hex4(hex_value(s[pos]), hex_value(s[pos + 1]),
              hex_value(s[pos + 2]), hex_value(s[pos + 3]))
    ELSE -1

\* the character a one-letter escape stands for, -1 if there is none
backslash(esc) ==
    CASE esc = "\"" -> 34
      [] esc = "\\" -> 92
      [] esc = "/"  -> 47
      [] esc = "b"  -> 8
      [] esc = "f"  -> 12
      [] esc = "n"  -> 10
      [] esc = "r"  -> 13
      [] esc = "t"  -> 9
      [] OTHER      -> -1

\* The scanner of a string literal at work: the index it has reached, the
\* code points gathered so far, and whether it goes on ("more"), has passed
\* the closing quote ("end") or has failed ("error").
StringScan(idx, chunks, phase) == [idx |-> idx, chunks |-> chunks, phase |-> phase]
StringError == StringScan(0, <<>>, "error")

\* the characters that end a run of plain characters in a string literal:
\* the quote, the backslash and the control characters
StringStops == {"\"", "\\"} \cup { chr(n) : n \in 0..31 }
PlainCharacters == { Latin1[i] : i \in 1..Len(Latin1) } \ StringStops

\* the code points of s[from:to]
code_points(s, from, to) == [i \in 1..(to - from) |-> ord(s[from + i - 1])]

\* after a \uXXXX escape at idx that gave the code unit uni: a high
\* surrogate followed by the escape of a low surrogate uni2 makes one
\* character with it
unicode_escape(s, idx, chunks, uni, uni2) ==
    IF uni < 0 THEN StringError
    ELSE IF uni \in 55296..56319 /\ startswith_at(s, idx + 6, <<"\\", "u">>)
    THEN IF uni2 < 0 THEN StringError
         ELSE IF uni2 \in 56320..57343
         THEN StringScan(idx + 12,
                  Append(chunks, 65536 + (uni - 55296) * 1024 + (uni2 - 56320)),
                  "more")
         ELSE StringScan(idx + 6, Append(chunks, uni), "more")
    ELSE StringScan(idx + 6, Append(chunks, uni), "more")

\* after a one-letter escape at idx that stands for the character char
letter_escape(s, idx, chunks, char) ==
    IF char < 0 THEN StringError
    ELSE StringScan(idx + 2, Append(chunks, char), "more")

\* the run of plain characters from idx to before end; a character that is
\* neither plain, nor a quote, nor a backslash is a control character, an
\* error
plain_run(s, idx, chunks, end) ==
    IF end = idx THEN StringError
    ELSE StringScan(end, chunks \o code_points(s, idx, end), "more")

\* one step of the string scanner: the closing quote, an escape, or a run of
\* plain characters
string_step(s, idx, chunks) ==
    IF idx > Len(s) THEN StringError
    ELSE IF s[idx] = "\"" THEN StringScan(idx + 1, chunks, "end")
    ELSE IF s[idx] = "\\" THEN
        IF idx + 1 > Len(s) THEN StringError
        ELSE IF s[idx + 1] = "u"
        THEN unicode_escape(s, idx, chunks, decode_uXXXX(s, idx + 2),
                            decode_uXXXX(s, idx + 8))
        ELSE letter_escape(s, idx, chunks, backslash(s[idx + 1]))
    ELSE plain_run(s, idx, chunks, run_end(s, idx, PlainCharacters))

RECURSIVE string_steps(_, _, _)
string_more(s, scan, n) ==
    IF scan.phase # "more" THEN scan ELSE string_steps(s, scan, n)

\* up to n steps of the string scanner, by halves
string_steps(s, scan, n) ==
    IF n <= 1 THEN string_step(s, scan.idx, scan.chunks)
    ELSE string_more(s, string_steps(s, scan, n \div 2), n - (n \div 2))

string_result(scan) ==
    IF scan.phase = "end" THEN Match(scan.chunks, scan.idx) ELSE NoMatch

\* the string whose opening quote is before idx: its code points, and the
\* index after its closing quote.  A control character, a bad escape and a
\* missing closing quote are errors.
scanstring(s, idx) ==
    string_result(string_steps(s, StringScan(idx, <<>>, "more"), Len(s) + 1))

\* the index after the run of decimal digits that starts at idx
digits_end(s, idx) == run_end(s, idx, DecimalDigits)

\* NUMBER_RE, group 1, (-?(?:0|[1-9]\d*)): the index after the integer part
\* whose first digit is looked for at first, 0 if there is no digit
integer_end(s, first) ==
    IF first > Len(s) \/ ~is_digit(s[first]) THEN 0
    ELSE IF s[first] = "0" THEN first + 1
    ELSE digits_end(s, first + 1)

\* NUMBER_RE, group 2, (\.\d+)?: the index after the fraction that may
\* start at idx
fraction_end(s, idx) ==
    IF idx + 1 <= Len(s) /\ s[idx] = "." /\ is_digit(s[idx + 1])
    THEN digits_end(s, idx + 2) ELSE idx

\* NUMBER_RE, group 3, ([eE][-+]?\d+)?: the index after the exponent that
\* may start at idx, its digits looked for at digits_at
exponent_end(s, idx, digits_at) ==
    IF /\ idx <= Len(s)
       /\ s[idx] \in {"e", "E"}
       /\ digits_at <= Len(s)
       /\ is_digit(s[digits_at])
    THEN digits_end(s, digits_at + 1) ELSE idx

\* the index after the sign an exponent at idx may have
exponent_digits_at(s, idx) ==
    IF idx + 1 <= Len(s) /\ s[idx + 1] \in {"+", "-"} THEN idx + 2 ELSE idx + 1

\* the number whose literal runs from idx to before end; without fraction
\* and exponent it is an int, and an int literal of more than 4300 digits
\* makes int() raise
number_value(s, idx, first, int_end, end) ==
    IF end = int_end /\ int_end - first > 4300 THEN NoMatch
    ELSE Match(JsonValue("number", SubSeq(s, idx, end - 1)), end)

number_tail(s, idx, first, int_end, frac_end) ==
    number_value(s, idx, first, int_end,
                 exponent_end(s, frac_end, exponent_digits_at(s, frac_end)))

number_from(s, idx, first, int_end) ==
    IF int_end = 0 THEN NoMatch
    ELSE number_tail(s, idx, first, int_end, fraction_end(s, int_end))

\* NUMBER_RE: (-?(?:0|[1-9]\d*))(\.\d+)?([eE][-+]?\d+)? matched at idx
match_number(s, idx) ==
    IF idx <= Len(s) /\ s[idx] = "-"
    THEN number_from(s, idx, idx + 1, integer_end(s, idx + 1))
    ELSE number_from(s, idx, idx, integer_end(s, idx))

\* dict[key] = value
dict_set(pairs, key, value) ==
    IF \E i \in 1..Len(pairs) : pairs[i][1] = key
    THEN [i \in 1..Len(pairs) |->
            IF pairs[i][1] = key THEN <<key, value>> ELSE pairs[i]]
    ELSE Append(pairs, <<key, value>>)

Literals ==
    << << <<"n","u","l","l">>, JsonValue("null", <<>>) >>,
       << <<"t","r","u","e">>, JsonValue("true", <<>>) >>,
       << <<"f","a","l","s","e">>, JsonValue("false", <<>>) >>,
       << <<"N","a","N">>, JsonValue("number", <<"N","a","N">>) >>,
       << <<"I","n","f","i","n","i","t","y">>,
          JsonValue("number", <<"I","n","f","i","n","i","t","y">>) >>,
       << <<"-","I","n","f","i","n","i","t","y">>,
          JsonValue("number", <<"-","I","n","f","i","n","i","t","y">>) >> >>

\* the literal of Literals that starts at idx, 0 if none does
literal_at(s, idx) ==
    IF \E k \in 1..Len(Literals) : startswith_at(s, idx, Literals[k][1])
    THEN CHOOSE k \in 1..Len(Literals) : startswith_at(s, idx, Literals[k][1])
    ELSE 0

\* sys.getrecursionlimit()
RecursionLimit == 1000

\* The Python frames in use when the scanner is called.  The script, run as
\* the main module, has six: the script, send_to_make, Response.json,
\* json.loads, JSONDecoder.decode and raw_decode.  Whatever runs the script
\* has its own beneath them (a thread that executes it has five, the
\* framework's script runner more), a number the source does not fix: it is
\* explored from none up to MaxBeneath.
Frames == { 6 + beneath : beneath \in 0..MaxBeneath }

\* The scanner enters one level of recursion for each object and array it
\* opens, an empty one too, and the level that reaches the limit raises
\* RecursionError: with so many frames in use, so many containers can be
\* open at a time.
NestingLimit(frames) == RecursionLimit - frames - 1

\* The scanner at work: the index it has reached, the objects and arrays it
\* is inside of (innermost last), and what it is about to do: read a value
\* at idx ("value"), go on behind the value that ended before idx ("after");
\* it has the value of the text ("done") or has failed ("error").
Scan(idx, stack, phase, value) ==
    [idx |-> idx, stack |-> stack, phase |-> phase, value |-> value]
ScanError == Scan(0, <<>>, "error", <<>>)

\* An open container: the values of a list or the pairs of a dict read so
\* far, and for a dict the key whose value is being read.
Open(type, items, key) == [type |-> type, items |-> items, key |-> key]

\* a scanned number or literal as the value read
value_read(r, stack) ==
    IF r.ok THEN Scan(r.end, stack, "after", r.value) ELSE ScanError

\* a scanned string as the value read
string_value(r, stack) ==
    IF r.ok THEN Scan(r.end, stack, "after", JsonValue("str", r.value))
    ELSE ScanError

\* behind a key: the colon, and the value to read after it
object_colon(s, key, colon, pairs, stack) ==
    IF colon > Len(s) \/ s[colon] # ":" THEN ScanError
    ELSE Scan(skip_whitespace(s, colon + 1),
              Append(stack, Open("dict", pairs, key)), "value", <<>>)

object_key(s, key, pairs, stack) ==
    IF ~key.ok THEN ScanError
    ELSE object_colon(s, key.value, skip_whitespace(s, key.end), pairs, stack)

\* what follows a comma in an object: the next key's opening quote
object_more(s, more, pairs, stack) ==
    IF more <= Len(s) /\ s[more] = "\""
    THEN object_key(s, scanstring(s, more + 1), pairs, stack)
    ELSE ScanError

\* what follows a value of an object, at is the index after it and the
\* white space behind it
JSONObject(s, at, pairs, stack) ==
    IF at > Len(s) THEN ScanError
    ELSE IF s[at] = "}" THEN Scan(at + 1, stack, "after", JsonValue("dict", pairs))
    ELSE IF s[at] = "," THEN object_more(s, skip_whitespace(s, at + 1), pairs, stack)
    ELSE ScanError

\* what follows an item of an array, at is the index after it and the white
\* space behind it
JSONArray(s, at, values, stack) ==
    IF at > Len(s) THEN ScanError
    ELSE IF s[at] = "]" THEN Scan(at + 1, stack, "after", JsonValue("list", values))
    ELSE IF s[at] = ","
    THEN Scan(skip_whitespace(s, at + 1),
              Append(stack, Open("list", values, <<>>)), "value", <<>>)
    ELSE ScanError

\* after "{" and the white space behind it
object_start(s, at, stack) ==
    IF at > Len(s) THEN ScanError
    ELSE IF s[at] = "}" THEN Scan(at + 1, stack, "after", EmptyDict)
    ELSE IF s[at] # "\"" THEN ScanError
    ELSE object_key(s, scanstring(s, at + 1), <<>>, stack)

\* after "[" and the white space behind it
array_start(s, at, stack) ==
    IF at > Len(s) THEN ScanError
    ELSE IF s[at] = "]" THEN Scan(at + 1, stack, "after", JsonValue("list", <<>>))
    ELSE Scan(at, Append(stack, Open("list", <<>>, <<>>)), "value", <<>>)

literal_or_number(s, idx, k, stack) ==
    IF k > 0 THEN Scan(idx + Len(Literals[k][1]), stack, "after", Literals[k][2])
    ELSE value_read(match_number(s, idx), stack)

\* the value that starts at idx
scan_once(s, idx, stack, frames) ==
    IF idx > Len(s) THEN ScanError
    ELSE IF s[idx] = "\"" THEN string_value(scanstring(s, idx + 1), stack)
    ELSE IF s[idx] = "{" THEN
        IF Len(stack) >= NestingLimit(frames) THEN ScanError
        ELSE object_start(s, skip_whitespace(s, idx + 1), stack)
    ELSE IF s[idx] = "[" THEN
        IF Len(stack) >= NestingLimit(frames) THEN ScanError
        ELSE array_start(s, skip_whitespace(s, idx + 1), stack)
    ELSE literal_or_number(s, idx, literal_at(s, idx), stack)

\* the value read goes into the innermost open container
value_end(s, at, value, top, below) ==
    IF top.type = "list" THEN JSONArray(s, at, Append(top.items, value), below)
    ELSE JSONObject(s, at, dict_set(top.items, top.key, value), below)

\* one step of the scanner
scan_step(s, scan, frames) ==
    IF scan.phase = "value" THEN scan_once(s, scan.idx, scan.stack, frames)
    ELSE IF scan.stack = <<>> THEN Scan(scan.idx, <<>>, "done", scan.value)
    ELSE value_end(s, skip_whitespace(s, scan.idx), scan.value,
                   scan.stack[Len(scan.stack)],
                   SubSeq(scan.stack, 1, Len(scan.stack) - 1))

RECURSIVE scan_steps(_, _, _, _)
scan_more(s, scan, n, frames) ==
    IF scan.phase \in {"done", "error"} THEN scan
    ELSE scan_steps(s, scan, n, frames)

\* up to n steps of the scanner, by halves
scan_steps(s, scan, n, frames) ==
    IF n <= 1 THEN scan_step(s, scan, frames)
    ELSE scan_more(s, scan_steps(s, scan, n \div 2, frames), n - (n \div 2),
                   frames)

\* the value of the whole text: anything but white space after it is an
\* error
whole_text(text, scan) ==
    IF scan.phase = "done" /\ skip_whitespace(text, scan.idx) = Len(text) + 1
    THEN scan.value ELSE JsonError

\* response.json(), called with so many frames in use: the value of the
\* text, white space around it allowed
json(text, frames) ==
    whole_text(text, scan_steps(text,
                   Scan(skip_whitespace(text, 1), <<>>, "value", <<>>),
                   Len(text) + 2, frames))

\* ------------------------------------------------------------------------
\* bool() of a parsed value
\* ------------------------------------------------------------------------
RECURSIVE capped_int(_, _)
\* int(digits), held at 10^8 from there on
capped_int(digits, acc) ==
    IF digits = <<>> THEN acc
    ELSE capped_int(Tail(digits),
                    Min(100000000, 10 * acc + digit_value(Head(digits))))

leading_zeros(digits) == run_end(digits, 1, {"0"}) - 1

\* 0.a <= 0.b for two digit sequences read as decimal fractions
fraction_le(a, b) ==
    LET n    == IF Len(a) > Len(b) THEN Len(a) ELSE Len(b)
        da(i) == IF i <= Len(a) THEN a[i] ELSE 0
        db(i) == IF i <= Len(b) THEN b[i] ELSE 0
        diff == {i \in 1..n : da(i) # db(i)}
    IN  diff = {} \/ LET i == CHOOSE i \in diff : \A j \in diff : i <= j
                     IN  da(i) < db(i)

\* The decimal digits of 5^1075.  Half the smallest positive float, 2^-1075,
\* is 0.d1 d2 ... d752 x 10^-323 with these digits, and a literal whose value
\* is no greater than it is read as 0.0.
HalfMinFloat ==
    << 2,4,7,0,3,2,8,2,2,9,2,0,6,2,3,2,7,2,0,8,8,2,8,4,3,9,6,4,3,4,1,1,0,6,8,6,
       1,8,2,5,2,9,9,0,1,3,0,7,1,6,2,3,8,2,2,1,2,7,9,2,8,4,1,2,5,0,3,3,7,7,5,3,
       6,3,5,1,0,4,3,7,5,9,3,2,6,4,9,9,1,8,1,8,0,8,1,7,9,9,6,1,8,9,8,9,8,2,8,2,
       3,4,7,7,2,2,8,5,8,8,6,5,4,6,3,3,2,8,3,5,5,1,7,7,9,6,9,8,9,8,1,9,9,3,8,7,
       3,9,8,0,0,5,3,9,0,9,3,9,0,6,3,1,5,0,3,5,6,5,9,5,1,5,5,7,0,2,2,6,3,9,2,2,
       9,0,8,5,8,3,9,2,4,4,9,1,0,5,1,8,4,4,3,5,9,3,1,8,0,2,8,4,9,9,3,6,5,3,6,1,
       5,2,5,0,0,3,1,9,3,7,0,4,5,7,6,7,8,2,4,9,2,1,9,3,6,5,6,2,3,6,6,9,8,6,3,6,
       5,8,4,8,0,7,5,7,0,0,1,5,8,5,7,6,9,2,6,9,9,0,3,7,0,6,3,1,1,9,2,8,2,7,9,5,
       5,8,5,5,1,3,3,2,9,2,7,8,3,4,3,3,8,4,0,9,3,5,1,9,7,8,0,1,5,5,3,1,2,4,6,5,
       9,7,2,6,3,5,7,9,5,7,4,6,2,2,7,6,6,4,6,5,2,7,2,8,2,7,2,2,0,0,5,6,3,7,4,0,
       0,6,4,8,5,4,9,9,9,7,7,0,9,6,5,9,9,4,7,0,4,5,4,0,2,0,8,2,8,1,6,6,2,2,6,2,
       3,7,8,5,7,3,9,3,4,5,0,7,3,6,3,3,9,0,0,7,9,6,7,7,6,1,9,3,0,5,7,7,5,0,6,7,
       4,0,1,7,6,3,2,4,6,7,3,6,0,0,9,6,8,9,5,1,3,4,0,5,3,5,5,3,7,4,5,8,5,1,6,6,
       6,1,1,3,4,2,2,3,7,6,6,6,7,8,6,0,4,1,6,2,1,5,9,6,8,0,4,6,1,9,1,4,4,6,7,2,
       9,1,8,4,0,3,0,0,5,3,0,0,5,7,5,3,0,8,4,9,0,4,8,7,6,5,3,9,1,7,1,1,3,8,6,5,
       9,1,6,4,6,2,3,9,5,2,4,9,1,2,6,2,3,6,5,3,8,8,1,8,7,9,6,3,6,2,3,9,3,7,3,2,
       8,0,4,2,3,8,9,1,0,1,8,6,7,2,3,4,8,4,9,7,6,6,8,2,3,5,0,8,9,8,6,3,3,8,8,5,
       8,7,9,2,5,6,2,8,3,0,2,7,5,5,9,9,5,6,5,7,5,2,4,4,5,5,5,0,7,2,5,5,1,8,9,3,
       1,3,6,9,0,8,3,6,2,5,4,7,7,9,1,8,6,9,4,8,6,6,7,9,9,4,9,6,8,3,2,4,0,4,9,7,
       0,5,8,2,1,0,2,8,5,1,3,1,8,5,4,5,1,3,9,6,2,1,3,8,3,7,7,2,2,8,2,6,1,4,5,4,
       3,7,6,9,3,4,1,2,5,3,2,0,9,8,5,9,1,3,2,7,6,6,7,2,3,6,3,2,8,1,2,5 >>

\* 0.digits x 10^scale equals zero as a float: no digit but 0, or a value no
\* greater than half the smallest positive float
digits_are_zero(digits, zeros, scale) ==
    \/ zeros = Len(digits)
    \/ scale - zeros < -323
    \/ /\ scale - zeros = -323
       /\ fraction_le([i \in 1..(Len(digits) - zeros) |-> digit_value(digits[i + zeros])],
                      HalfMinFloat)

\* int(exp_part) of the text after the e of a literal, 0 without one
exponent_value(exp_part) ==
    IF exp_part = <<>> THEN 0
    ELSE IF Head(exp_part) = "-" THEN 0 - capped_int(Tail(exp_part), 0)
    ELSE IF Head(exp_part) = "+" THEN capped_int(Tail(exp_part), 0)
    ELSE capped_int(exp_part, 0)

\* mantissa is digits [. digits]: its digits, and where its point stands
mantissa_is_zero(mantissa, digits, exponent) ==
    digits_are_zero(digits, leading_zeros(digits),
                    (digits_end(mantissa, 1) - 1) + exponent)

\* unsigned is mantissa [e exponent], its mantissa ends at mant_end
literal_is_zero(unsigned, mant_end) ==
    mantissa_is_zero(SubSeq(unsigned, 1, mant_end),
                     SelectSeq(SubSeq(unsigned, 1, mant_end), LAMBDA c : c # "."),
                     exponent_value(SubSeq(unsigned, mant_end + 2, Len(unsigned))))

unsigned_is_zero(unsigned) ==
    IF unsigned[1] \in {"N", "I"} THEN FALSE
    ELSE literal_is_zero(unsigned,
             run_end(unsigned, 1, DecimalDigits \cup {"."}) - 1)

\* the number a literal is read as equals zero
number_is_zero(literal) ==
    unsigned_is_zero(IF Head(literal) = "-" THEN Tail(literal) ELSE literal)

\* Variant: `is not None` for the truth value
truthy_not_none(value) == value.type # "null"

\* bool(value) of a parsed JSON value
truthy(value) ==
    CASE value.type \in {"dict", "list", "str"} -> Len(value.items) > 0
      [] value.type = "number"                 -> ~number_is_zero(value.items)
      [] value.type = "true"                   -> TRUE
      [] OTHER                                 -> FALSE

\* ------------------------------------------------------------------------
\* send_to_make: the webhook's answer and its classification
\* ------------------------------------------------------------------------
\* What requests.post does: answers with a status code and a body, or raises.
HttpResponse(status_code, text) ==
    [kind |-> "http", status_code |-> status_code, text |-> text]
Raised(kind, text) == [kind |-> kind, status_code |-> 0, text |-> text]

TextLimit == 300

\* try: response_data = response.json(); except Exception: response_data = {}
value_or_empty(parsed) == IF parsed.type = "error" THEN EmptyDict ELSE parsed

\* send_to_make, called with so many frames in use, on what requests.post
\* does
send_to_make(response, frames) ==
    IF response.kind = "http" THEN
        IF response.status_code = 200 THEN
            <<TRUE, Msg("Proposal generation initiated successfully.", <<>>),
              value_or_empty(json(response.text, frames))>>
        ELSE IF response.status_code = 404 THEN
            <<FALSE, Msg("Webhook endpoint not found. Verify the URL in Streamlit secrets.", <<>>),
              EmptyDict>>
        ELSE IF response.status_code = 429 THEN
            <<FALSE, Msg("Rate limit reached on Make.com. Please wait a moment and retry.", <<>>),
              EmptyDict>>
        ELSE IF response.status_code = 500 THEN
            <<FALSE, Msg("Make.com server error. Check your scenario for configuration issues.", <<>>),
              EmptyDict>>
        ELSE
            <<FALSE, Msg("Unexpected response (HTTP {status_code}): {text[:300]}",
                         <<str_int(response.status_code),
                           SubSeq(response.text, 1, Min(TextLimit, Len(response.text)))>>),
              EmptyDict>>
    ELSE IF response.kind = "Timeout" THEN
        <<FALSE, Msg("Request timed out after 60 seconds. Make.com may be unreachable.", <<>>),
          EmptyDict>>
    ELSE IF response.kind = "ConnectionError" THEN
        <<FALSE, Msg("Connection failed. Check your internet connection.", <<>>), EmptyDict>>
    ELSE IF response.kind = "RequestException" THEN
        <<FALSE, Msg("Request error: {str(e)}", <<response.text>>), EmptyDict>>
    ELSE
        <<FALSE, Msg("Unexpected error: {str(e)}", <<response.text>>), EmptyDict>>

\* Variant: the failure branch leaves the record at "processing"
status_for_no_failed(success, response_data) ==
    IF success /\ truthy(response_data) THEN "draft_ready" ELSE "processing"

\* The status the handler passes to update_supabase_status
status_for(success, response_data) ==
    IF success
    THEN (IF truthy(response_data) THEN "draft_ready" ELSE "processing")
    ELSE "failed"

\* ------------------------------------------------------------------------
\* Inputs explored
\* ------------------------------------------------------------------------
NameDBS   == <<"D","B","S"," ">>
NameBlank == <<" ","\t">>
ClientNames == { <<>>, NameBlank, NameDBS }

ServiceSelections == { <<>>, <<"Security Operations">> }

FilePdf    == <<"r","f","p",".","p","d","f">>
FileExe    == <<"r","f","p",".","e","x","e">>
FileRefTxt == <<"r","e","f",".","t","x","t">>
FileRefDoc == <<"o","l","d",".","d","o","c">>

\* The bytes of a file too large to enumerate are left out: the validator
\* rejects it on its size before anything reads them.
RfpOk     == UploadedFile(FilePdf, "application/pdf", 2, <<37, 80>>, FALSE)
RfpBroken == UploadedFile(FilePdf, "application/pdf", 2, <<37, 80>>, TRUE)
RfpExe    == UploadedFile(FileExe, "application/octet-stream", 2, <<77, 90>>, FALSE)
RfpBig    == UploadedFile(FilePdf, "application/pdf", 11 * MB, <<>>, FALSE)
RfpFiles  == { None, RfpOk, RfpBroken, RfpExe, RfpBig }

RefOk     == UploadedFile(FileRefDoc, "application/msword", 3, <<1, 2, 3>>, FALSE)
RefEmpty  == UploadedFile(FileRefTxt, "text/plain", 0, <<>>, FALSE)
RefBroken == UploadedFile(FileRefTxt, "text/plain", 1, <<9>>, TRUE)

\* The option widgets: two checkboxes, a select box and a text area, at
\* their defaults and changed.
Options(include_pricing, include_timeline, tone_preference, additional_notes) ==
    [include_pricing |-> include_pricing, include_timeline |-> include_timeline,
     tone_preference |-> tone_preference, additional_notes |-> additional_notes]
DefaultOptions == Options(TRUE, TRUE, "Professional", "")
OtherOptions   == Options(FALSE, FALSE, "Technical", "mention MAS TRM")

Form(client_name, service_types, rfp_file, reference_files, options) ==
    [client_name |-> client_name, service_types |-> service_types,
     rfp_file |-> rfp_file, reference_files |-> reference_files,
     options |-> options]

\* The forms submitted: every combination of name, services and RFP file
\* with no references and the default options, and the forms that pass
\* validation with reference files and the options changed.
Forms ==
    { Form(n, sv, f, <<>>, DefaultOptions) :
        n \in ClientNames, sv \in ServiceSelections, f \in RfpFiles }
    \cup { Form(NameDBS, <<"Security Operations">>, f,
                 <<RefOk, RefBroken, RefEmpty>>, OtherOptions) :
             f \in {RfpOk, RfpBroken} }

\* the forms of a series of clicks: one that goes through, one whose RFP
\* cannot be read, one that fails validation
SeriesForms ==
    { Form(NameDBS, <<"Security Operations">>, RfpOk,
           <<RefOk, RefBroken, RefEmpty>>, OtherOptions),
      Form(NameDBS, <<"Security Operations">>, RfpBroken, <<>>, DefaultOptions),
      Form(NameDBS, <<"Security Operations">>, RfpExe, <<>>, DefaultOptions) }

NoForm == Form(<<>>, <<>>, None, <<>>, DefaultOptions)

ErrText == <<"b","o","o","m">>

BodyEmpty    == <<>>
BodyAccepted == <<"A","c","c","e","p","t","e","d">>
BodyObject0  == <<"{","}">>
BodyArray0   == <<"[","]">>
BodyNull     == <<"n","u","l","l">>
BodyZero     == <<"0">>
BodyZeroFloat == <<"0",".","0">>
BodyOkTrue   == <<"{","\"","o","k","\"",":","t","r","u","e","}">>
BodyStatusOk == <<"{","\"","s","t","a","t","u","s","\"",":"," ","\"","o","k","\"","}">>

Responses ==
    { HttpResponse(200, b) : b \in {BodyEmpty, BodyAccepted, BodyObject0,
                                    BodyArray0, BodyNull, BodyZero, BodyZeroFloat,
                                    BodyOkTrue, BodyStatusOk} }
    \cup { HttpResponse(c, BodyAccepted) : c \in {404, 429, 500, 503} }
    \cup { Raised(k, ErrText) :
             k \in {"Timeout", "ConnectionError", "RequestException", "Exception"} }

KeyErrorId == <<"'","i","d","'">>      \* str(KeyError("id"))

\* the answers of a series of clicks
SeriesResponses ==
    { HttpResponse(200, BodyOkTrue), HttpResponse(200, BodyEmpty),
      HttpResponse(429, BodyAccepted), Raised("Timeout", ErrText) }

\* What the datastore does with the proposal insert: stores the row and
\* returns it ("data"), stores it and returns an empty result ("nodata"),
\* stores it and returns it without an id ("noid": response.data[0]["id"]
\* raises KeyError), or the call raises, the row stored or not (the answer
\* was lost, or the request failed).
InsertOutcomes == { [kind |-> "data",   stored |-> TRUE],
                    [kind |-> "nodata", stored |-> TRUE],
                    [kind |-> "noid",   stored |-> TRUE],
                    [kind |-> "raise",  stored |-> TRUE],
                    [kind |-> "raise",  stored |-> FALSE] }

\* An update or a reference_docs insert takes effect and returns, raises
\* without effect, or takes effect and raises (the answer was lost).
CallOutcomes == { [raises |-> FALSE, applied |-> TRUE],
                  [raises |-> TRUE,  applied |-> FALSE],
                  [raises |-> TRUE,  applied |-> TRUE] }

\* the outcomes of the datastore calls in a series of clicks
SeriesInsertOutcomes == { [kind |-> "data",  stored |-> TRUE],
                          [kind |-> "raise", stored |-> FALSE] }

SeriesCallOutcomes == { [raises |-> FALSE, applied |-> TRUE],
                        [raises |-> TRUE,  applied |-> FALSE] }

\* ------------------------------------------------------------------------
\* State
\* ------------------------------------------------------------------------
VARIABLES
    now,             \* int(time.time()), whole seconds
    pc,              \* per session: the handler's position in the current run
    form,            \* per session: the widget values of the run in progress
    valid,           \* per session: (is_valid, error_msg)
    submission_id,   \* per session: the handler's submission_id
    rfp_base64,      \* per session: the encoded RFP
    payload,         \* per session: the payload built by the run
    sb,              \* per session: (sb_ok, sb_result) of the proposal insert
    response,        \* per session: what requests.post gave send_to_make
    result,          \* per session: (success, message, response_data)
    warnings,        \* per session: the st.warning lines of the run
    session_state,   \* per session: submission_count, last_submission_id
    proposals,       \* datastore table "proposals"
    reference_docs,  \* datastore table "reference_docs"
    posts,           \* per session: webhook POSTs made by the current run
    updates,         \* per session: status updates issued by the current run
    click,           \* per session: number of the current run (0: none)
    nclicks,         \* clicks so far, of all sessions
    dispatched,      \* runs whose webhook POST has completed
    v_in,            \* validator harness: the inputs
    v_out            \* validator harness: the value returned for them

vars == <<now, pc, form, valid, submission_id, rfp_base64, payload, sb,
          response, result, warnings, session_state, proposals, reference_docs, posts, updates,
          click, nclicks, dispatched, v_in, v_out>>

harness == <<v_in, v_out>>

NoId      == <<>>      \* Python None where a submission id is expected
NoValid   == [called |-> FALSE]
NoEnc     == [called |-> FALSE]
NoPayload == [built |-> FALSE]
NoSb      == [called |-> FALSE]
NoResponse == [kind |-> "none", status_code |-> 0, text |-> <<>>]
NoResult  == [called |-> FALSE]
NotRun    == [ran |-> FALSE]

InitRun ==
    /\ now = 0
    /\ pc = [s \in Sessions |-> "idle"]
    /\ form = [s \in Sessions |-> NoForm]
    /\ valid = [s \in Sessions |-> NoValid]
    /\ submission_id = [s \in Sessions |-> NoId]
    /\ rfp_base64 = [s \in Sessions |-> NoEnc]
    /\ payload = [s \in Sessions |-> NoPayload]
    /\ sb = [s \in Sessions |-> NoSb]
    /\ response = [s \in Sessions |-> NoResponse]
    /\ result = [s \in Sessions |-> NoResult]
    /\ warnings = [s \in Sessions |-> {}]
    /\ session_state = [s \in Sessions |->
                          [submission_count |-> 0, last_submission_id |-> NoId]]
    /\ proposals = <<>>
    /\ reference_docs = <<>>
    /\ posts = [s \in Sessions |-> 0]
    /\ updates = [s \in Sessions |-> <<>>]
    /\ click = [s \in Sessions |-> 0]
    /\ nclicks = 0
    /\ dispatched = {}

Init ==
    /\ InitRun
    /\ v_in = NoForm
    /\ v_out = NotRun

\* ------------------------------------------------------------------------
\* Pieces of the submission handler
\* ------------------------------------------------------------------------
\* f"DACTA-{int(time.time())}"
make_submission_id(t) == <<"D","A","C","T","A","-">> \o str_int(t)

\* `if ref_b64:` is the truth value of the encoder's result
ref_kept(ref_b64) == ~ref_b64.none /\ ref_b64.text # <<>>

RECURSIVE encode_references(_)
\* the loop that fills reference_data
encode_references(reference_files) ==
    IF reference_files = <<>> THEN <<>>
    ELSE LET ref     == Head(reference_files)
             ref_b64 == encode_file_to_base64(ref)
         IN  (IF ref_kept(ref_b64)
              THEN << [filename |-> ref.name, content |-> ref_b64.text,
                       size |-> ref.size] >>
              ELSE <<>>)
             \o encode_references(Tail(reference_files))

build_payload(f, encoded, reference_data, sid, t) ==
    [built               |-> TRUE,
     client_name         |-> strip(f.client_name),
     service_types       |-> f.service_types,
     rfp_document        |-> [filename |-> f.rfp_file.name,
                              content  |-> encoded.text,
                              size     |-> f.rfp_file.size,
                              type     |-> f.rfp_file.type],
     reference_documents |-> reference_data,
     options             |-> [include_pricing  |-> f.options.include_pricing,
                              include_timeline |-> f.options.include_timeline,
                              tone             |-> f.options.tone_preference,
                              additional_notes |-> f.options.additional_notes],
     metadata            |-> [submission_id |-> sid,
                              timestamp     |-> t,
                              version       |-> "1.0.0"]]

\* log_submission_to_supabase: the table after the call and (ok, result).  A
\* row carries, besides its columns, the run that created it and the number
\* of times it has been patched.
log_submission_to_supabase(table, p, outcome, run) ==
    LET row == [id               |-> Len(table) + 1,
                submission_id    |-> p.metadata.submission_id,
                client_name      |-> p.client_name,
                service_types    |-> p.service_types,
                status           |-> "processing",
                rfp_filename     |-> p.rfp_document.filename,
                tone             |-> p.options.tone,
                include_pricing  |-> p.options.include_pricing,
                include_timeline |-> p.options.include_timeline,
                additional_notes |-> p.options.additional_notes,
                run              |-> run,
                patches          |-> 0]
    IN  [table  |-> IF outcome.stored THEN Append(table, row) ELSE table,
         called |-> TRUE,
         ok     |-> outcome.kind = "data",
         id     |-> IF outcome.kind = "data" THEN row.id ELSE 0,
         msg    |-> CASE outcome.kind = "data"   -> Msg("", <<>>)
                      [] outcome.kind = "nodata" ->
                            Msg("Supabase returned no data on insert.", <<>>)
                      [] outcome.kind = "noid" ->
                            Msg("Supabase insert error: {str(e)}", <<KeyErrorId>>)
                      [] OTHER -> Msg("Supabase insert error: {str(e)}", <<ErrText>>)]

\* log_reference_docs_to_supabase up to its warning: the table after the
\* call and whether the insert raised
log_reference_docs_to_supabase(table, proposal_id, reference_files, outcome) ==
    IF reference_files = <<>> THEN [table |-> table, raised |-> FALSE]
    ELSE LET rows == [i \in 1..Len(reference_files) |->
                        [proposal_id |-> proposal_id,
                         filename    |-> reference_files[i].name,
                         file_size   |-> reference_files[i].size]]
         IN  [table  |-> IF outcome.applied THEN table \o rows ELSE table,
              raised |-> outcome.raises]

\* update_supabase_status up to its warning: every row whose submission_id
\* matches is patched if the update takes effect; whether the call raised
update_supabase_status(table, sid, status, outcome) ==
    LET patched == [i \in 1..Len(table) |->
                       IF table[i].submission_id = sid
                       THEN [table[i] EXCEPT !.status = status,
                                             !.patches = @ + 1]
                       ELSE table[i]]
    IN  [table  |-> IF outcome.applied THEN patched ELSE table,
         raised |-> outcome.raises]

\* ------------------------------------------------------------------------
\* The submission handler, one script run per click.  A session has one run
\* at a time; the runs of different sessions go on side by side.  A run is
\* cut into steps at its clock readings, at its datastore and webhook calls
\* and at the points where the framework can end it.  The clock advances at
\* any moment.
\* ------------------------------------------------------------------------
Tick ==
    /\ now < MaxTime
    /\ now' = now + 1
    /\ UNCHANGED <<pc, form, valid, submission_id, rfp_base64, payload, sb,
                   response, result, warnings, session_state, proposals, reference_docs,
                   posts, updates, click, nclicks, dispatched, harness>>

\* The user fills the form in and presses the button
Click(s, f) ==
    /\ pc[s] = "idle"
    /\ form' = [form EXCEPT ![s] = f]
    /\ pc' = [pc EXCEPT ![s] = "validate"]
    /\ nclicks' = nclicks + 1
    /\ click' = [click EXCEPT ![s] = nclicks + 1]
    /\ UNCHANGED <<now, valid, submission_id, rfp_base64, payload, sb, response, result,
                   warnings, session_state, proposals, reference_docs, posts,
                   updates, dispatched, harness>>

\* Variant: the else is lost, the run goes on after showing the error
Validate_no_else(s) ==
    /\ pc[s] = "validate"
    /\ LET f == form[s]
           v == validate_inputs(f.client_name, f.service_types, f.rfp_file)
       IN  valid' = [valid EXCEPT ![s] =
                       [called |-> TRUE, is_valid |-> v[1], error_msg |-> v[2]]]
    /\ pc' = [pc EXCEPT ![s] = "encode"]
    /\ submission_id' = [submission_id EXCEPT ![s] = make_submission_id(now)]
    /\ UNCHANGED <<now, form, rfp_base64, payload, sb, response, result, warnings,
                   session_state, proposals, reference_docs, posts, updates,
                   click, nclicks, dispatched, harness>>

\* validate the form and generate the submission identifier
Validate(s) ==
    /\ pc[s] = "validate"
    /\ LET f == form[s]
           v == validate_inputs(f.client_name, f.service_types, f.rfp_file)
       IN  /\ valid' = [valid EXCEPT ![s] =
                          [called |-> TRUE, is_valid |-> v[1], error_msg |-> v[2]]]
           /\ IF ~v[1]
              THEN /\ pc' = [pc EXCEPT ![s] = "done"]
                   /\ UNCHANGED submission_id
              ELSE /\ pc' = [pc EXCEPT ![s] = "encode"]
                   /\ submission_id' = [submission_id EXCEPT ![s] =
                                           make_submission_id(now)]
    /\ UNCHANGED <<now, form, rfp_base64, payload, sb, response, result, warnings,
                   session_state, proposals, reference_docs, posts, updates,
                   click, nclicks, dispatched, harness>>

\* Variant: no st.stop(), the run goes on without the content
Encode_no_stop(s) ==
    /\ pc[s] = "encode"
    /\ LET enc == encode_file_to_base64(form[s].rfp_file)
       IN  rfp_base64' = [rfp_base64 EXCEPT ![s] =
                    [called |-> TRUE, none |-> enc.none, text |-> enc.text]]
    /\ pc' = [pc EXCEPT ![s] = "payload"]
    /\ UNCHANGED <<now, form, valid, submission_id, payload, sb, response, result,
                   warnings, session_state, proposals, reference_docs, posts, updates,
                   click, nclicks, dispatched, harness>>

\* Step 1: encode the RFP; st.stop() when that fails
Encode(s) ==
    /\ pc[s] = "encode"
    /\ LET enc == encode_file_to_base64(form[s].rfp_file)
       IN  /\ rfp_base64' = [rfp_base64 EXCEPT ![s] =
                    [called |-> TRUE, none |-> enc.none, text |-> enc.text]]
           /\ pc' = [pc EXCEPT ![s] = IF enc.none THEN "done" ELSE "payload"]
    /\ UNCHANGED <<now, form, valid, submission_id, payload, sb, response, result,
                   warnings, session_state, proposals, reference_docs, posts, updates,
                   click, nclicks, dispatched, harness>>

\* Steps 1 and 2: encode the reference files and build the payload
BuildPayload(s) ==
    /\ pc[s] = "payload"
    /\ payload' = [payload EXCEPT ![s] =
          build_payload(form[s], rfp_base64[s],
                        encode_references(form[s].reference_files),
                        submission_id[s], now)]
    /\ pc' = [pc EXCEPT ![s] = "log"]
    /\ UNCHANGED <<now, form, valid, submission_id, rfp_base64, sb, response, result,
                   warnings, session_state, proposals, reference_docs, posts, updates,
                   click, nclicks, dispatched, harness>>

\* Step 3: the proposals insert; the reference_docs insert follows if it
\* gave an id, the warning of line 567 if not
LogSubmission(s, o) ==
    /\ pc[s] = "log"
    /\ LET r == log_submission_to_supabase(proposals, payload[s], o, click[s])
       IN  /\ proposals' = r.table
           /\ sb' = [sb EXCEPT ![s] = [called |-> TRUE, ok |-> r.ok,
                                       id |-> r.id, msg |-> r.msg]]
           /\ pc' = [pc EXCEPT ![s] =
                        IF r.ok THEN "reference_docs" ELSE "insert_warning"]
    /\ UNCHANGED <<now, form, valid, submission_id, rfp_base64, payload, response, result,
                   warnings, session_state, reference_docs, posts, updates, click,
                   nclicks, dispatched, harness>>

\* Step 3, after a proposals insert that gave an id: the reference_docs
\* insert, and the warning of line 225 next if it raised
LogReferenceDocs(s, o) ==
    /\ pc[s] = "reference_docs"
    /\ LET r == log_reference_docs_to_supabase(reference_docs, sb[s].id,
                                               form[s].reference_files, o)
       IN  /\ reference_docs' = r.table
           /\ pc' = [pc EXCEPT ![s] =
                        IF r.raised THEN "reference_docs_warning" ELSE "send"]
    /\ UNCHANGED <<now, form, valid, submission_id, rfp_base64, payload, sb, response,
                   result, warnings, session_state, proposals, posts, updates, click,
                   nclicks, dispatched, harness>>

\* Step 4: POST to the webhook
SendToMake(s, answer, frames) ==
    /\ pc[s] = "send"
    /\ LET r == send_to_make(answer, frames)
       IN  /\ response' = [response EXCEPT ![s] = answer]
           /\ result' = [result EXCEPT ![s] =
                 [called |-> TRUE, success |-> r[1], message |-> r[2],
                  response_data |-> r[3]]]
    /\ posts' = [posts EXCEPT ![s] = @ + 1]
    /\ dispatched' = dispatched \cup {click[s]}
    /\ pc' = [pc EXCEPT ![s] = "update"]
    /\ UNCHANGED <<now, form, valid, submission_id, rfp_base64, payload, sb,
                   warnings, session_state, proposals, reference_docs, updates,
                   click, nclicks, harness>>

\* The status update that follows the dispatch, and the warning of line
\* 245 next if it raised
UpdateStatus(s, o) ==
    /\ pc[s] = "update"
    /\ LET status == status_for(result[s].success, result[s].response_data)
           u == update_supabase_status(proposals, submission_id[s], status, o)
       IN  /\ proposals' = u.table
           /\ updates' = [updates EXCEPT ![s] = Append(@,
                  [submission_id |-> submission_id[s], status |-> status,
                   raised |-> u.raised])]
           /\ pc' = [pc EXCEPT ![s] =
                        IF u.raised THEN "update_warning" ELSE "render"]
    /\ UNCHANGED <<now, form, valid, submission_id, rfp_base64, payload, sb,
                   response, result, warnings, session_state, reference_docs, posts,
                   click, nclicks, dispatched, harness>>

\* st.warning after a datastore call that failed: line 567 for the
\* proposals insert, 225 for the reference_docs insert, 245 for the status
\* update; the run goes on
Warn(s) ==
    /\ pc[s] \in {"insert_warning", "reference_docs_warning", "update_warning"}
    /\ warnings' = [warnings EXCEPT ![s] = @ \cup
          { CASE pc[s] = "insert_warning"         -> "insert"
              [] pc[s] = "reference_docs_warning" -> "reference_docs"
              [] pc[s] = "update_warning"         -> "update" }]
    /\ pc' = [pc EXCEPT ![s] = IF pc[s] = "update_warning" THEN "render" ELSE "send"]
    /\ UNCHANGED <<now, form, valid, submission_id, rfp_base64, payload, sb,
                   response, result, session_state, proposals, reference_docs,
                   posts, updates, click, nclicks, dispatched, harness>>

\* The result banner and, after a successful dispatch, the session counters
Finish(s) ==
    /\ pc[s] = "render"
    /\ session_state' =
          IF result[s].success
          THEN [session_state EXCEPT ![s] =
                  [submission_count   |-> @.submission_count + 1,
                   last_submission_id |-> submission_id[s]]]
          ELSE session_state
    /\ pc' = [pc EXCEPT ![s] = "done"]
    /\ UNCHANGED <<now, form, valid, submission_id, rfp_base64, payload, sb,
                   response, result, warnings, proposals, reference_docs, posts,
                   updates, click, nclicks, dispatched, harness>>

\* The positions at which the run is inside or before a call that renders
\* (st.status, st.write, st.error, st.warning, st.success, st.balloons,
\* status_box.update): the script before the handler, lines 511 and 513,
\* line 523 (reached only with reference files), 558, 562, 567, 225, 570,
\* 245, and 579 to 595.  Between the return of send_to_make and the status
\* update the code renders nothing.
Rendering(s) ==
    \/ pc[s] \in {"validate", "encode", "log", "reference_docs", "send", "render",
                  "insert_warning", "reference_docs_warning", "update_warning"}
    \/ pc[s] = "payload" /\ form[s].reference_files # <<>>

\* The framework ends the script run at a call that renders: the session
\* asked for a rerun (a widget was touched) or was closed while the run was
\* going on.  What the run has done stays done, the rest is never executed.
Interrupt(s) ==
    /\ Rendering(s)
    /\ pc' = [pc EXCEPT ![s] = "done"]
    /\ UNCHANGED <<now, form, valid, submission_id, rfp_base64, payload, sb,
                   response, result, warnings, session_state, proposals,
                   reference_docs, posts, updates, click, nclicks, dispatched,
                   harness>>

\* The script run is over: its variables are gone, the session state stays
End(s) ==
    /\ pc[s] = "done"
    /\ pc' = [pc EXCEPT ![s] = "idle"]
    /\ form' = [form EXCEPT ![s] = NoForm]
    /\ valid' = [valid EXCEPT ![s] = NoValid]
    /\ submission_id' = [submission_id EXCEPT ![s] = NoId]
    /\ rfp_base64' = [rfp_base64 EXCEPT ![s] = NoEnc]
    /\ payload' = [payload EXCEPT ![s] = NoPayload]
    /\ sb' = [sb EXCEPT ![s] = NoSb]
    /\ response' = [response EXCEPT ![s] = NoResponse]
    /\ result' = [result EXCEPT ![s] = NoResult]
    /\ warnings' = [warnings EXCEPT ![s] = {}]
    /\ posts' = [posts EXCEPT ![s] = 0]
    /\ updates' = [updates EXCEPT ![s] = <<>>]
    /\ click' = [click EXCEPT ![s] = 0]
    /\ UNCHANGED <<now, session_state, proposals, reference_docs, nclicks,
                   dispatched, harness>>

\* The clicks of one session, s1, their forms, the datastore's outcomes and the
\* webhook's answers drawn from everything the model holds
Next ==
    \/ Tick
    \/ \E f \in Forms : nclicks < MaxClicks /\ Click("s1", f)
    \/ \E s \in Sessions : Validate(s)
    \/ \E s \in Sessions : Encode(s)
    \/ \E s \in Sessions : BuildPayload(s)
    \/ \E s \in Sessions, o \in InsertOutcomes : LogSubmission(s, o)
    \/ \E s \in Sessions, o \in CallOutcomes : LogReferenceDocs(s, o)
    \/ \E s \in Sessions, answer \in Responses, frames \in Frames :
          SendToMake(s, answer, frames)
    \/ \E s \in Sessions, o \in CallOutcomes : UpdateStatus(s, o)
    \/ \E s \in Sessions : Warn(s)
    \/ \E s \in Sessions : Finish(s)
    \/ \E s \in Sessions : Interrupt(s)
    \/ \E s \in Sessions : End(s)

Spec == Init /\ [][Next]_vars

\* The clicks of two sessions, their runs side by side, over fewer forms,
\* outcomes and answers
NextSeries ==
    \/ Tick
    \/ \E s \in Sessions, f \in SeriesForms : nclicks < MaxSeries /\ Click(s, f)
    \/ \E s \in Sessions : Validate(s)
    \/ \E s \in Sessions : Encode(s)
    \/ \E s \in Sessions : BuildPayload(s)
    \/ \E s \in Sessions, o \in SeriesInsertOutcomes : LogSubmission(s, o)
    \/ \E s \in Sessions, o \in SeriesCallOutcomes : LogReferenceDocs(s, o)
    \/ \E s \in Sessions, answer \in SeriesResponses, frames \in Frames :
          SendToMake(s, answer, frames)
    \/ \E s \in Sessions, o \in SeriesCallOutcomes : UpdateStatus(s, o)
    \/ \E s \in Sessions : Warn(s)
    \/ \E s \in Sessions : Finish(s)
    \/ \E s \in Sessions : Interrupt(s)
    \/ \E s \in Sessions : End(s)

SpecSeries == Init /\ [][NextSeries]_vars

\* ------------------------------------------------------------------------
\* The validator on its own: inputs drawn from a wider set
\* ------------------------------------------------------------------------
ValidatorNames == { <<>>, <<" ">>, NameBlank, NameDBS, <<"\n","A"," ">>,
                    <<chr(160)>>, <<chr(11), " ", chr(133)>>, <<chr(28), "D">> }

ValidatorServices == { <<>>, <<"Security Operations">>,
                       <<"Consulting", "Security Operations">> }

ValidatorFilenames ==
    { FilePdf, FileExe, FileRefDoc,
      <<"R","F","P",".","P","D","F">>,
      <<"a",".","D","o","c","x">>,
      <<"p","d","f">>,
      <<"D","O","C">>,
      <<"r","f","p">>,
      <<"r","f","p",".","p","d","f",".","e","x","e">>,
      <<"r","f","p",".","e","x","e",".","d","o","c","x">>,
      <<"r","f","p",".","p","d","f","x">>,
      <<"r","f","p",".","p","d","f"," ">>,
      <<"r","f","p",".">>,
      <<".","p","d","f">>,
      <<"a",".",chr(201),"X","E">> }

ValidatorSizes == { 0, 1, 10 * MB - 1, 10 * MB, 10 * MB + 1, 10538188, 10538189,
                    11 * MB, 200 * MB }

ValidatorFiles ==
    { None } \cup
    { UploadedFile(n, "application/octet-stream", sz, <<>>, FALSE) :
        n \in ValidatorFilenames, sz \in ValidatorSizes }

ValidatorInputs ==
    [client_name : ValidatorNames, service_types : ValidatorServices,
     rfp_file : ValidatorFiles, reference_files : {<<>>},
     options : {DefaultOptions}]

InitValidate ==
    /\ InitRun
    /\ v_in \in ValidatorInputs
    /\ v_out = NotRun

RunValidate ==
    /\ ~v_out.ran
    /\ LET v == validate_inputs(v_in.client_name, v_in.service_types, v_in.rfp_file)
       IN  v_out' = [ran |-> TRUE, is_valid |-> v[1], error_msg |-> v[2]]
    /\ UNCHANGED <<now, pc, form, valid, submission_id, rfp_base64, payload, sb,
                   response, result, warnings, session_state, proposals, reference_docs,
                   posts, updates, click, nclicks, dispatched, v_in>>

NextValidate == RunValidate

SpecValidate == InitValidate /\ [][NextValidate]_vars

\* ------------------------------------------------------------------------
\* The validator's rules, stated on the inputs
\* ------------------------------------------------------------------------
NameMissing(f)    == \A i \in 1..Len(f.client_name) : f.client_name[i] \in Whitespace
ServiceMissing(f) == Len(f.service_types) = 0
FileMissing(f)    == ~f.rfp_file.present
ExtensionBad(f)   ==
    /\ f.rfp_file.present
    /\ LET n    == f.rfp_file.name
           dots == {i \in 1..Len(n) : n[i] = "."}
           tail == IF dots = {} THEN n
                   ELSE SubSeq(n, (CHOOSE i \in dots : \A j \in dots : j <= i) + 1, Len(n))
       IN  lower(tail) \notin { <<"p","d","f">>, <<"d","o","c","x">>, <<"d","o","c">> }
SizeBad(f)        == f.rfp_file.present /\ f.rfp_file.size > 10485760

\* the number of the first rule the inputs violate, 0 if they violate none
FirstViolated(f) ==
    IF NameMissing(f) THEN 1
    ELSE IF ServiceMissing(f) THEN 2
    ELSE IF FileMissing(f) THEN 3
    ELSE IF ExtensionBad(f) THEN 4
    ELSE IF SizeBad(f) THEN 5
    ELSE 0

RuleMessage ==
    << "Please enter a client name.",
       "Please select at least one service type.",
       "Please upload an RFP document.",
       "Invalid file type '{ext}'. Allowed: .pdf, .docx, .doc",
       "RFP file is {size_mb:.1f}MB - maximum allowed is 10MB." >>

\* C1: validate_inputs returns the message of the lowest-numbered rule the
\* inputs violate, whatever other rules they violate too, and (True, "")
\* exactly when they violate none.
C1_FirstFailureWins ==
    v_out.ran =>
        LET k == FirstViolated(v_in)
        IN  IF k = 0
            THEN v_out.is_valid /\ v_out.error_msg = Msg("", <<>>)
            ELSE ~v_out.is_valid /\ v_out.error_msg.fmt = RuleMessage[k]

\* a bad extension and an oversized file together: the extension message
C1_Witness ==
    /\ v_out.ran
    /\ ~NameMissing(v_in) /\ ~ServiceMissing(v_in)
    /\ ExtensionBad(v_in) /\ SizeBad(v_in)
    /\ v_out.error_msg.fmt = RuleMessage[4]

\* C2: with a valid name and a service selected, every file whose name does
\* not end in .pdf, .docx or .doc (case-insensitively) is rejected, whatever
\* its size, names without a dot included.
C2_NonListedNameRejected ==
    ( /\ v_out.ran
      /\ ~NameMissing(v_in) /\ ~ServiceMissing(v_in) /\ v_in.rfp_file.present
      /\ \A i \in 1..Len(allowed) : ~endswith(lower(v_in.rfp_file.name), allowed[i]) )
    => ~v_out.is_valid

\* C3: with a valid name, a service selected and an allow-listed extension,
\* the file is rejected if and only if its size exceeds 10485760 bytes.
C3_SizeCeiling ==
    ( /\ v_out.ran
      /\ ~NameMissing(v_in) /\ ~ServiceMissing(v_in)
      /\ v_in.rfp_file.present /\ ~ExtensionBad(v_in) )
    => ( ~v_out.is_valid <=> v_in.rfp_file.size > 10485760 )

\* one byte above the ceiling is refused with the size message
C3_Witness ==
    /\ v_out.ran
    /\ ~NameMissing(v_in) /\ ~ServiceMissing(v_in)
    /\ v_in.rfp_file.present /\ ~ExtensionBad(v_in)
    /\ v_in.rfp_file.size = 10485761
    /\ ~v_out.is_valid
    /\ v_out.error_msg = Msg(RuleMessage[5], << <<"1","0",".","0">> >>)

\* ------------------------------------------------------------------------
\* Dispatch outcome and status update
\* ------------------------------------------------------------------------
\* the run has its webhook answer and its status update behind it
Dispatched(s) ==
    pc[s] \in {"update_warning", "render", "done"} /\ result[s].called

Answered(s, code) == response[s].kind = "http" /\ response[s].status_code = code

\* the bodies explored that are JSON documents whose value counts as true
NonEmptyJsonBodies == { BodyOkTrue, BodyStatusOk }

\* C4 as amended: the status handed to the Status Updater is "draft_ready"
\* when the webhook answered 200 with a body that parses as JSON to a value
\* Python counts as true, "processing" when it answered 200 with any other
\* body (empty, not JSON, or a JSON value that counts as false such as {},
\* [], null, 0 or 0.0), and "failed" for every other outcome.
C4_StatusFollowsParsedBody ==
    \A s \in Sessions : Dispatched(s) =>
        /\ Len(updates[s]) = 1
        /\ updates[s][1].status =
             IF Answered(s, 200)
             THEN (IF response[s].text \in NonEmptyJsonBodies
                   THEN "draft_ready" ELSE "processing")
             ELSE "failed"

\* a 200 answer with the non-JSON body "Accepted" ends as "processing"
C4_Witness ==
    \E s \in Sessions :
        /\ Dispatched(s) /\ Answered(s, 200)
        /\ response[s].text = BodyAccepted
        /\ updates[s][1].status = "processing"

\* C4 as first stated: "draft_ready" for every non-empty body of a 200
\* answer, "processing" for the empty body, "failed" otherwise.
C4_StatusFollowsRawBody ==
    \A s \in Sessions : Dispatched(s) =>
        /\ Len(updates[s]) = 1
        /\ updates[s][1].status =
             IF Answered(s, 200)
             THEN (IF response[s].text # <<>> THEN "draft_ready" ELSE "processing")
             ELSE "failed"

FixedMessage(s) ==
    CASE Answered(s, 404) ->
           "Webhook endpoint not found. Verify the URL in Streamlit secrets."
      [] Answered(s, 429) ->
           "Rate limit reached on Make.com. Please wait a moment and retry."
      [] Answered(s, 500) ->
           "Make.com server error. Check your scenario for configuration issues."
      [] response[s].kind = "Timeout" ->
           "Request timed out after 60 seconds. Make.com may be unreachable."
      [] OTHER -> ""

FixedMessages ==
    { "Webhook endpoint not found. Verify the URL in Streamlit secrets.",
      "Rate limit reached on Make.com. Please wait a moment and retry.",
      "Make.com server error. Check your scenario for configuration issues.",
      "Request timed out after 60 seconds. Make.com may be unreachable." }

FixedFailure(s) == result[s].called /\ FixedMessage(s) # ""

RowsOf(s) == { i \in 1..Len(proposals) : proposals[i].run = click[s] }

\* C5 as amended: on 404, 429, 500 and timeout send_to_make fails with that
\* case's own message, which no other outcome produces, and the handler
\* issues one status update, "failed", for the submission.  When the update
\* returns, every record with the submission's identifier is "failed" and
\* the run goes on with no warning.  When it raises, every such record is
\* "failed" or as it was, no other record has changed, and the run goes on
\* to the warning of update_supabase_status: it reaches the result banner
\* only with that warning shown.
C5_FixedFailureMarksFailed ==
    /\ [](\A s \in Sessions :
            /\ Len(updates[s]) <= 1
            /\ result[s].called =>
                 ( result[s].message.fmt \in FixedMessages
                   <=> FixedMessage(s) = result[s].message.fmt )
            /\ FixedFailure(s) =>
                 /\ ~result[s].success
                 /\ result[s].message = Msg(FixedMessage(s), <<>>)
                 /\ Cardinality(FixedMessages) = 4
                 /\ pc[s] \in {"update", "update_warning", "render", "done"}
                 /\ Len(updates[s]) = IF pc[s] = "update" THEN 0 ELSE 1
                 /\ pc[s] = "update_warning" =>
                      updates[s][1].raised /\ "update" \notin warnings[s]
                 /\ pc[s] = "render" =>
                      ("update" \in warnings[s] <=> updates[s][1].raised)
                 /\ "update" \in warnings[s] =>
                      pc[s] \in {"render", "done"} /\ updates[s][1].raised)
    /\ [][ \A s \in Sessions :
             (FixedFailure(s) /\ pc[s] = "update" /\ pc'[s] # "update") =>
                /\ updates'[s][1].submission_id = submission_id[s]
                /\ updates'[s][1].status = "failed"
                /\ pc'[s] = IF updates'[s][1].raised
                            THEN "update_warning" ELSE "render"
                /\ Len(proposals') = Len(proposals)
                /\ \A i \in 1..Len(proposals) :
                     IF proposals[i].submission_id = submission_id[s]
                     THEN \/ proposals'[i].status = "failed"
                          \/ updates'[s][1].raised /\ proposals'[i] = proposals[i]
                     ELSE proposals'[i] = proposals[i]
         ]_vars

\* a rate-limited dispatch whose record has been patched to "failed"
C5_Witness ==
    \E s \in Sessions :
        /\ FixedFailure(s) /\ Answered(s, 429) /\ pc[s] = "done"
        /\ ~updates[s][1].raised
        /\ \E i \in RowsOf(s) : proposals[i].status = "failed"

\* C5 as first stated: after such a failure the record is "failed" when the
\* click has finished.
C5_RecordAlwaysFailed ==
    \A s \in Sessions : (FixedFailure(s) /\ pc[s] = "done") =>
        /\ ~result[s].success
        /\ result[s].message = Msg(FixedMessage(s), <<>>)
        /\ \A i \in RowsOf(s) : proposals[i].status = "failed"

\* ------------------------------------------------------------------------
\* The pipeline's control flow
\* ------------------------------------------------------------------------
Rejects(f) == FirstViolated(f) # 0

\* C6: a click whose inputs fail validation inserts nothing, updates nothing,
\* posts nothing, generates no submission identifier and leaves the session
\* counters alone, in the validation step and in what is left of the run:
\* no step of the run touches the tables or the counters.
C6_InvalidClickHasNoEffect ==
    [][ \A s \in Sessions :
          (pc[s] \in {"validate", "done"} /\ Rejects(form[s])) =>
             /\ pc'[s] \in {pc[s], IF pc[s] = "validate" THEN "done" ELSE "idle"}
             /\ submission_id'[s] = NoId
             /\ payload'[s] = NoPayload
             /\ posts'[s] = 0
             /\ updates'[s] = <<>>
             /\ session_state'[s] = session_state[s]
             /\ pc'[s] # pc[s] =>
                  UNCHANGED <<proposals, reference_docs, dispatched, session_state>>
      ]_vars

\* a run that has shown a validation error
C6_Witness ==
    \E s \in Sessions :
        /\ pc[s] = "done" /\ Rejects(form[s])
        /\ valid[s].called /\ ~valid[s].is_valid
        /\ valid[s].error_msg.fmt = RuleMessage[4]

\* C7: a proposal record is created as "processing" before its run's POST,
\* is patched at most once and only after that POST has completed, moves
\* only from "processing" to "draft_ready" or "failed", and is never deleted.
C7_RecordLifecycle ==
    [][ /\ Len(proposals') >= Len(proposals)
        /\ \A i \in 1..Len(proposals) :
             /\ proposals'[i].id = proposals[i].id
             /\ proposals'[i].patches # proposals[i].patches =>
                  /\ proposals[i].patches = 0
                  /\ proposals[i].status = "processing"
                  /\ proposals'[i].status \in {"processing", "draft_ready", "failed"}
                  /\ proposals[i].run \in dispatched
             /\ proposals'[i].patches = proposals[i].patches =>
                  proposals'[i].status = proposals[i].status
        /\ \A i \in (Len(proposals) + 1)..Len(proposals') :
             /\ proposals'[i].status = "processing"
             /\ proposals'[i].patches = 0
             /\ proposals'[i].run \notin dispatched'
      ]_vars

Built(s) == payload[s].built

\* the run has encoded its RFP
Encoded(s) == rfp_base64[s].called /\ ~rfp_base64[s].none

\* C8: a run makes no second POST, and a run that has passed validation and
\* RFP encoding has made exactly one POST when it is over, whatever the two
\* datastore inserts did and whatever the webhook answered.
C8_ExactlyOnePost ==
    \A s \in Sessions :
        /\ posts[s] <= 1
        /\ (pc[s] = "done" /\ Encoded(s)) => posts[s] = 1

RfpUnreadable(f) == ~Rejects(f) /\ f.rfp_file.raises

\* C9: when the RFP cannot be encoded the run stops there: no payload, no
\* row in either table, no POST, no status update, session counters as they
\* were: no step of the run touches the tables or the counters.
C9_EncodingFailureHalts ==
    [][ \A s \in Sessions :
          (pc[s] \in {"encode", "done"} /\ RfpUnreadable(form[s])) =>
             /\ pc'[s] \in {pc[s], IF pc[s] = "encode" THEN "done" ELSE "idle"}
             /\ payload'[s] = NoPayload
             /\ posts'[s] = 0
             /\ updates'[s] = <<>>
             /\ session_state'[s] = session_state[s]
             /\ pc'[s] # pc[s] =>
                  UNCHANGED <<proposals, reference_docs, dispatched, session_state>>
      ]_vars

\* a run stopped by the encoder, its identifier already generated
C9_Witness ==
    \E s \in Sessions :
        /\ pc[s] = "done" /\ RfpUnreadable(form[s])
        /\ rfp_base64[s].called /\ rfp_base64[s].none
        /\ submission_id[s] # NoId
        /\ ~Built(s) /\ posts[s] = 0

RECURSIVE Readable(_)
\* the files whose getvalue() does not raise, in order
Readable(files) ==
    IF files = <<>> THEN <<>>
    ELSE (IF Head(files).raises THEN <<>> ELSE <<Head(files)>>) \o Readable(Tail(files))

\* C10: the payload lists, in upload order, exactly the reference files whose
\* encoding did not raise, and the run goes on to dispatch.
C10_ReferencesKeptUnlessRaised ==
    \A s \in Sessions : Built(s) =>
        LET kept == Readable(form[s].reference_files)
            docs == payload[s].reference_documents
        IN  /\ Len(docs) = Len(kept)
            /\ \A i \in 1..Len(kept) :
                 /\ docs[i].filename = kept[i].name
                 /\ docs[i].size = kept[i].size

\* ------------------------------------------------------------------------
\* Submission identifiers and session counters
\* ------------------------------------------------------------------------
\* C11: the identifiers of distinct clicks differ, so no two rows of the
\* proposals table share a submission_id.
C11_RowsHaveDistinctIds ==
    \A i, j \in 1..Len(proposals) :
        proposals[i].run # proposals[j].run =>
            proposals[i].submission_id # proposals[j].submission_id

\* C12: submission_count starts at 0 and last_submission_id at None; a run
\* whose dispatch was answered 200 adds, by the time it is over, one to its
\* session's count and makes its identifier the last one, whatever the
\* datastore calls did; nothing else touches the counters.
C12_CountersFollowSuccesses ==
    /\ \A s \in Sessions :
         session_state[s] = [submission_count |-> 0, last_submission_id |-> NoId]
    /\ [][ \A s \in Sessions :
             IF pc[s] = "render" /\ pc'[s] = "done" /\ Answered(s, 200)
             THEN /\ session_state'[s].submission_count =
                        session_state[s].submission_count + 1
                  /\ session_state'[s].last_submission_id = submission_id[s]
                  /\ submission_id[s] # NoId
             ELSE session_state'[s] = session_state[s]
         ]_vars

====
